---- MODULE Spec2Model ----
(***************************************************************************)
(* A state-machine model of openGlProject.cpp: main's start-up, render     *)
(* loop and clean-up, processInput, and the two mouse callbacks.           *)
(*                                                                         *)
(* Numbers.  The program computes in float; the model computes in          *)
(* fixed point on inputs that make the arithmetic exact:                   *)
(*   - cursor coordinates are whole pixels and the sensitivity is 0.1, so  *)
(*     yaw and pitch are integers counting tenths of a degree;             *)
(*   - clock readings are whole tenths of a second, cameraSpeed counts     *)
(*     hundredths of a world unit;                                         *)
(*   - direction vectors are scaled by 10000 (SinTable holds               *)
(*     round(10000 * sin) for every tenth of a degree in 0..90 degrees);   *)
(*   - cameraPos is scaled by 1000000, so cameraSpeed * direction adds     *)
(*     without rounding.                                                   *)
(***************************************************************************)
EXTENDS Integers, Sequences, FiniteSets

----------------------------------------------------------------------------
(* Bounds of the environment.                                              *)

\* Keys the user holds down at the same time.
MaxHeld == 2
\* Discrete toggle-key presses delivered between two resets.
MaxPresses == 3
\* Movement keys held down at the same time when movement is explored.
MaxMoveHeld == 1
\* Last clock reading (tenths of a second) when movement is explored.
MaxTime == 2
\* Last clock reading when the clock is not what is explored.
MaxIdleTime == 1
\* Largest turn of yaw away from its initial value, in tenths of a degree,
\* when the mouse is explored.
MaxTurn == 20
\* Largest tilt of pitch downwards when movement is explored.
MaxMoveTilt == 450

----------------------------------------------------------------------------
(* Program constants.                                                      *)

SCR_WIDTH == 800
SCR_HEIGHT == 600
\* float yaw = -90.0f, in tenths of a degree.
YawInit == -900
\* 89.0f, in tenths of a degree.
PitchLimit == 890
\* 2.5f world units per second, in hundredths of a unit per tenth of a second.
BaseSpeed == 25
\* glDrawArrays(GL_TRIANGLES, 0, 36)
DrawCount == 36
\* 6 * sizeof(float): the stride of one vertex, in floats.
StrideFloats == 6
\* sizeof(float)
FloatBytes == 4
\* the size of keyStates and toggleStates
NumStates == 6
\* the number of mapped transformation keys
NumKeys == 5

\* float vertices[]: every float doubled (-0.5f is -1, 1 is 2).
vertices ==
    << 
       -1, -1, -1,  2,  0,  0,  1, -1, -1,  0,  2,  0,  1,  1, -1,  0,  0,  2,
        1,  1, -1,  0,  0,  2, -1,  1, -1,  2,  2,  0, -1, -1, -1,  2,  2,  0,
       -1, -1,  1,  2,  0,  0,  1, -1,  1,  0,  2,  0,  1,  1,  1,  0,  0,  2,
        1,  1,  1,  0,  0,  2, -1,  1,  1,  2,  2,  0, -1, -1,  1,  2,  2,  0,
       -1,  1,  1,  2,  0,  0, -1,  1, -1,  0,  2,  0, -1, -1, -1,  0,  0,  2,
       -1, -1, -1,  0,  0,  2, -1, -1,  1,  2,  2,  0, -1,  1,  1,  2,  2,  0,
        1,  1,  1,  2,  0,  0,  1,  1, -1,  0,  2,  0,  1, -1, -1,  0,  0,  2,
        1, -1, -1,  0,  0,  2,  1, -1,  1,  2,  2,  0,  1,  1,  1,  2,  2,  0,
       -1, -1, -1,  2,  0,  0,  1, -1, -1,  0,  2,  0,  1, -1,  1,  0,  0,  2,
        1, -1,  1,  0,  0,  2, -1, -1,  1,  2,  2,  0, -1, -1, -1,  2,  2,  0
    >>

\* round(10000 * sin(a)) for a = 0, 0.1, ..., 90.0 degrees.
SinTable ==
    <<
           0,    17,    35,    52,    70,    87,   105,   122,   140,   157,   175,   192,   209,   227,   244,
         262,   279,   297,   314,   332,   349,   366,   384,   401,   419,   436,   454,   471,   488,   506,
         523,   541,   558,   576,   593,   610,   628,   645,   663,   680,   698,   715,   732,   750,   767,
         785,   802,   819,   837,   854,   872,   889,   906,   924,   941,   958,   976,   993,  1011,  1028,
        1045,  1063,  1080,  1097,  1115,  1132,  1149,  1167,  1184,  1201,  1219,  1236,  1253,  1271,  1288,
        1305,  1323,  1340,  1357,  1374,  1392,  1409,  1426,  1444,  1461,  1478,  1495,  1513,  1530,  1547,
        1564,  1582,  1599,  1616,  1633,  1650,  1668,  1685,  1702,  1719,  1736,  1754,  1771,  1788,  1805,
        1822,  1840,  1857,  1874,  1891,  1908,  1925,  1942,  1959,  1977,  1994,  2011,  2028,  2045,  2062,
        2079,  2096,  2113,  2130,  2147,  2164,  2181,  2198,  2215,  2233,  2250,  2267,  2284,  2300,  2317,
        2334,  2351,  2368,  2385,  2402,  2419,  2436,  2453,  2470,  2487,  2504,  2521,  2538,  2554,  2571,
        2588,  2605,  2622,  2639,  2656,  2672,  2689,  2706,  2723,  2740,  2756,  2773,  2790,  2807,  2823,
        2840,  2857,  2874,  2890,  2907,  2924,  2940,  2957,  2974,  2990,  3007,  3024,  3040,  3057,  3074,
        3090,  3107,  3123,  3140,  3156,  3173,  3190,  3206,  3223,  3239,  3256,  3272,  3289,  3305,  3322,
        3338,  3355,  3371,  3387,  3404,  3420,  3437,  3453,  3469,  3486,  3502,  3518,  3535,  3551,  3567,
        3584,  3600,  3616,  3633,  3649,  3665,  3681,  3697,  3714,  3730,  3746,  3762,  3778,  3795,  3811,
        3827,  3843,  3859,  3875,  3891,  3907,  3923,  3939,  3955,  3971,  3987,  4003,  4019,  4035,  4051,
        4067,  4083,  4099,  4115,  4131,  4147,  4163,  4179,  4195,  4210,  4226,  4242,  4258,  4274,  4289,
        4305,  4321,  4337,  4352,  4368,  4384,  4399,  4415,  4431,  4446,  4462,  4478,  4493,  4509,  4524,
        4540,  4555,  4571,  4586,  4602,  4617,  4633,  4648,  4664,  4679,  4695,  4710,  4726,  4741,  4756,
        4772,  4787,  4802,  4818,  4833,  4848,  4863,  4879,  4894,  4909,  4924,  4939,  4955,  4970,  4985,
        5000,  5015,  5030,  5045,  5060,  5075,  5090,  5105,  5120,  5135,  5150,  5165,  5180,  5195,  5210,
        5225,  5240,  5255,  5270,  5284,  5299,  5314,  5329,  5344,  5358,  5373,  5388,  5402,  5417,  5432,
        5446,  5461,  5476,  5490,  5505,  5519,  5534,  5548,  5563,  5577,  5592,  5606,  5621,  5635,  5650,
        5664,  5678,  5693,  5707,  5721,  5736,  5750,  5764,  5779,  5793,  5807,  5821,  5835,  5850,  5864,
        5878,  5892,  5906,  5920,  5934,  5948,  5962,  5976,  5990,  6004,  6018,  6032,  6046,  6060,  6074,
        6088,  6101,  6115,  6129,  6143,  6157,  6170,  6184,  6198,  6211,  6225,  6239,  6252,  6266,  6280,
        6293,  6307,  6320,  6334,  6347,  6361,  6374,  6388,  6401,  6414,  6428,  6441,  6455,  6468,  6481,
        6494,  6508,  6521,  6534,  6547,  6561,  6574,  6587,  6600,  6613,  6626,  6639,  6652,  6665,  6678,
        6691,  6704,  6717,  6730,  6743,  6756,  6769,  6782,  6794,  6807,  6820,  6833,  6845,  6858,  6871,
        6884,  6896,  6909,  6921,  6934,  6947,  6959,  6972,  6984,  6997,  7009,  7022,  7034,  7046,  7059,
        7071,  7083,  7096,  7108,  7120,  7133,  7145,  7157,  7169,  7181,  7193,  7206,  7218,  7230,  7242,
        7254,  7266,  7278,  7290,  7302,  7314,  7325,  7337,  7349,  7361,  7373,  7385,  7396,  7408,  7420,
        7431,  7443,  7455,  7466,  7478,  7490,  7501,  7513,  7524,  7536,  7547,  7559,  7570,  7581,  7593,
        7604,  7615,  7627,  7638,  7649,  7660,  7672,  7683,  7694,  7705,  7716,  7727,  7738,  7749,  7760,
        7771,  7782,  7793,  7804,  7815,  7826,  7837,  7848,  7859,  7869,  7880,  7891,  7902,  7912,  7923,
        7934,  7944,  7955,  7965,  7976,  7986,  7997,  8007,  8018,  8028,  8039,  8049,  8059,  8070,  8080,
        8090,  8100,  8111,  8121,  8131,  8141,  8151,  8161,  8171,  8181,  8192,  8202,  8211,  8221,  8231,
        8241,  8251,  8261,  8271,  8281,  8290,  8300,  8310,  8320,  8329,  8339,  8348,  8358,  8368,  8377,
        8387,  8396,  8406,  8415,  8425,  8434,  8443,  8453,  8462,  8471,  8480,  8490,  8499,  8508,  8517,
        8526,  8536,  8545,  8554,  8563,  8572,  8581,  8590,  8599,  8607,  8616,  8625,  8634,  8643,  8652,
        8660,  8669,  8678,  8686,  8695,  8704,  8712,  8721,  8729,  8738,  8746,  8755,  8763,  8771,  8780,
        8788,  8796,  8805,  8813,  8821,  8829,  8838,  8846,  8854,  8862,  8870,  8878,  8886,  8894,  8902,
        8910,  8918,  8926,  8934,  8942,  8949,  8957,  8965,  8973,  8980,  8988,  8996,  9003,  9011,  9018,
        9026,  9033,  9041,  9048,  9056,  9063,  9070,  9078,  9085,  9092,  9100,  9107,  9114,  9121,  9128,
        9135,  9143,  9150,  9157,  9164,  9171,  9178,  9184,  9191,  9198,  9205,  9212,  9219,  9225,  9232,
        9239,  9245,  9252,  9259,  9265,  9272,  9278,  9285,  9291,  9298,  9304,  9311,  9317,  9323,  9330,
        9336,  9342,  9348,  9354,  9361,  9367,  9373,  9379,  9385,  9391,  9397,  9403,  9409,  9415,  9421,
        9426,  9432,  9438,  9444,  9449,  9455,  9461,  9466,  9472,  9478,  9483,  9489,  9494,  9500,  9505,
        9511,  9516,  9521,  9527,  9532,  9537,  9542,  9548,  9553,  9558,  9563,  9568,  9573,  9578,  9583,
        9588,  9593,  9598,  9603,  9608,  9613,  9617,  9622,  9627,  9632,  9636,  9641,  9646,  9650,  9655,
        9659,  9664,  9668,  9673,  9677,  9681,  9686,  9690,  9694,  9699,  9703,  9707,  9711,  9715,  9720,
        9724,  9728,  9732,  9736,  9740,  9744,  9748,  9751,  9755,  9759,  9763,  9767,  9770,  9774,  9778,
        9781,  9785,  9789,  9792,  9796,  9799,  9803,  9806,  9810,  9813,  9816,  9820,  9823,  9826,  9829,
        9833,  9836,  9839,  9842,  9845,  9848,  9851,  9854,  9857,  9860,  9863,  9866,  9869,  9871,  9874,
        9877,  9880,  9882,  9885,  9888,  9890,  9893,  9895,  9898,  9900,  9903,  9905,  9907,  9910,  9912,
        9914,  9917,  9919,  9921,  9923,  9925,  9928,  9930,  9932,  9934,  9936,  9938,  9940,  9942,  9943,
        9945,  9947,  9949,  9951,  9952,  9954,  9956,  9957,  9959,  9960,  9962,  9963,  9965,  9966,  9968,
        9969,  9971,  9972,  9973,  9974,  9976,  9977,  9978,  9979,  9980,  9981,  9982,  9983,  9984,  9985,
        9986,  9987,  9988,  9989,  9990,  9990,  9991,  9992,  9993,  9993,  9994,  9995,  9995,  9996,  9996,
        9997,  9997,  9997,  9998,  9998,  9998,  9999,  9999,  9999,  9999, 10000, 10000, 10000, 10000, 10000,
       10000
    >>

\* 1.0 as a component of a direction vector: sin(90 degrees).
One == SinTable[901]

----------------------------------------------------------------------------
(* Arithmetic.                                                             *)

\* a / b rounded to the nearest integer, b > 0.
RoundDiv(a, b) ==
    IF a >= 0 THEN (2 * a + b) \div (2 * b) ELSE -((2 * (-a) + b) \div (2 * b))

\* sin(glm::radians(a)), a in tenths of a degree, scaled by One.
Sin(a) ==
    LET r == a % 3600
    IN  IF r <= 900 THEN SinTable[r + 1]
        ELSE IF r <= 1800 THEN SinTable[1800 - r + 1]
        ELSE IF r <= 2700 THEN -SinTable[r - 1800 + 1]
        ELSE -SinTable[3600 - r + 1]

\* cos(glm::radians(a)), a in tenths of a degree, scaled by One.
Cos(a) == Sin(a + 900)

RECURSIVE SqrtBetween(_, _, _)
\* The largest r in lo..hi with r * r <= n, given lo * lo <= n < (hi+1)^2.
SqrtBetween(n, lo, hi) ==
    IF lo >= hi THEN lo
    ELSE LET mid == (lo + hi + 1) \div 2
         IN  IF mid * mid <= n THEN SqrtBetween(n, mid, hi)
             ELSE SqrtBetween(n, lo, mid - 1)

\* sqrt(n) rounded to the nearest integer, 0 <= n < 2^30.
Sqrt(n) ==
    LET f == SqrtBetween(n, 0, 32767)
    IN  IF n - f * f > f THEN f + 1 ELSE f

VAdd(a, b) == << a[1] + b[1], a[2] + b[2], a[3] + b[3] >>
VSub(a, b) == << a[1] - b[1], a[2] - b[2], a[3] - b[3] >>
VScale(k, a) == << k * a[1], k * a[2], k * a[3] >>
Dot(a, b) == a[1] * b[1] + a[2] * b[2] + a[3] * b[3]

\* glm::cross of two vectors scaled by One, scaled by One.
Cross(a, b) ==
    << RoundDiv(a[2] * b[3] - a[3] * b[2], One),
       RoundDiv(a[3] * b[1] - a[1] * b[3], One),
       RoundDiv(a[1] * b[2] - a[2] * b[1], One) >>

\* glm::normalize of a vector scaled by One, scaled by One.
Normalize(a) ==
    LET len == Sqrt(Dot(a, a))
    IN  << RoundDiv(a[1] * One, len), RoundDiv(a[2] * One, len),
           RoundDiv(a[3] * One, len) >>

----------------------------------------------------------------------------
(* State.                                                                  *)

VARIABLES
    \* the program's globals
    cameraPos, cameraFront, yaw, pitch, lastX, lastY, firstMouse,
    leftMousePressed, deltaTime, lastFrame,
    applyTranslation, applyRotation, applyScaling, applyShearing,
    applyReflection, keyStates, toggleStates,
    \* main: its position, its return value (none while it runs), what it
    \* printed
    pc, exitCode, stdout,
    \* the windowing library and the GL context, as main's calls leave them
    acquired, released, shouldClose, cursorMode, bufferBytes, drawn,
    \* the user's devices, as the windowing library reports them
    keysDown, buttonsDown, cursor,
    \* history: what the run has done so far
    polled, pressCount, sampled, loopEntered, failure, runKey, runTime,
    runMoved, runFront

globals ==
    << cameraPos, cameraFront, yaw, pitch, lastX, lastY, firstMouse,
       leftMousePressed, deltaTime, lastFrame,
       applyTranslation, applyRotation, applyScaling, applyShearing,
       applyReflection, keyStates, toggleStates >>
camera == << cameraFront, yaw, pitch, lastX, lastY, firstMouse >>
toggles ==
    << applyTranslation, applyRotation, applyScaling, applyShearing,
       applyReflection, keyStates, toggleStates >>
host == << acquired, released, shouldClose, cursorMode, bufferBytes, drawn >>
devices == << keysDown, buttonsDown, cursor >>
history ==
    << polled, pressCount, sampled, loopEntered, failure, runKey, runTime,
       runMoved, runFront >>
vars == << globals, pc, exitCode, stdout, host, devices, history >>

\* int keys[5]
keys == [i \in 0 .. NumKeys - 1 |-> << "1", "2", "3", "4", "5" >>[i + 1]]
ToggleKeys == {keys[i] : i \in 0 .. NumKeys - 1}
ResetKey == "0"
MoveKeys == {"W", "A", "S", "D"}
Buttons == {"LEFT", "RIGHT"}
Actions == {"PRESS", "RELEASE"}
Resources ==
    {"glfw", "window", "VAO", "VBO", "vertexShader", "fragmentShader",
     "shaderProgram"}

\* glm::vec3 cameraUp
cameraUp == << 0, One, 0 >>

Init ==
    /\ cameraPos = << 0, 0, 3 * One * 100 >>
    /\ cameraFront = << 0, 0, -One >>
    /\ yaw = YawInit
    /\ pitch = 0
    /\ lastX = SCR_WIDTH \div 2
    /\ lastY = SCR_HEIGHT \div 2
    /\ firstMouse = TRUE
    /\ leftMousePressed = FALSE
    /\ deltaTime = 0
    /\ lastFrame = 0
    /\ applyTranslation = FALSE
    /\ applyRotation = FALSE
    /\ applyScaling = FALSE
    /\ applyShearing = FALSE
    /\ applyReflection = FALSE
    /\ keyStates = [i \in 0 .. NumStates - 1 |-> FALSE]
    /\ toggleStates = [i \in 0 .. NumStates - 1 |-> FALSE]
    /\ pc = "glfwInit"
    /\ exitCode = << >>
    /\ stdout = << >>
    /\ acquired = [r \in Resources |-> 0]
    /\ released = [r \in Resources |-> 0]
    /\ shouldClose = FALSE
    /\ cursorMode = "NORMAL"
    /\ bufferBytes = 0
    /\ drawn = 0
    /\ keysDown = {}
    /\ buttonsDown = {}
    /\ cursor = << SCR_WIDTH \div 2, SCR_HEIGHT \div 2 >>
    /\ polled = {}
    /\ pressCount = [i \in 0 .. NumKeys - 1 |-> 0]
    /\ sampled = 0
    /\ loopEntered = FALSE
    /\ failure = "none"
    /\ runKey = "none"
    /\ runTime = 0
    /\ runMoved = << 0, 0, 0 >>
    /\ runFront = << 0, 0, 0 >>

----------------------------------------------------------------------------
(* main, up to the render loop.                                            *)

\* std::cout << ... << std::endl
Cout(out, msg) == Append(out, msg)

\* glfwTerminate(): ends the library, if initialised, and destroys its windows.
Terminated(acq, rel) ==
    [r \in Resources |->
        IF r \in {"glfw", "window"} /\ acq[r] > rel[r] THEN rel[r] + 1
        ELSE rel[r]]

\* A faulty main: every return statement returns 0.
ReturnsZero(at) == 0

\* The value main returns at each of its return statements.
ReturnValue(at) ==
    CASE at = "createWindow" -> -1
      [] at = "loadGL" -> -1
      [] at = "cleanup" -> 0

\* glfwInit() and the window hints; the result of glfwInit is not looked at.
GlfwInit(ok) ==
    /\ pc = "glfwInit"
    /\ acquired' = IF ok THEN [acquired EXCEPT !["glfw"] = @ + 1] ELSE acquired
    /\ pc' = "createWindow"
    /\ UNCHANGED << globals, exitCode, stdout, released, shouldClose,
                    cursorMode, bufferBytes, drawn, devices, history >>

\* glfwCreateWindow and the test of its result; the callbacks are registered.
CreateWindow(ok) ==
    /\ pc = "createWindow"
    /\ ok => acquired["glfw"] > 0
    /\ IF ok
       THEN /\ acquired' = [acquired EXCEPT !["window"] = @ + 1]
            /\ pc' = "loadGL"
            /\ UNCHANGED << stdout, released, exitCode, failure >>
       ELSE /\ stdout' = Cout(stdout, "Failed to create GLFW window")
            /\ released' = Terminated(acquired, released)
            /\ exitCode' = << ReturnValue("createWindow") >>
            /\ pc' = "exited"
            /\ failure' = "window"
            /\ UNCHANGED acquired
    /\ UNCHANGED << globals, shouldClose, cursorMode, bufferBytes, drawn,
                    devices, polled, pressCount, sampled, loopEntered,
                    runKey, runTime, runMoved, runFront >>

\* gladLoadGLLoader and the test of its result.
LoadGL(ok) ==
    /\ pc = "loadGL"
    /\ IF ok
       THEN /\ pc' = "setup"
            /\ UNCHANGED << stdout, exitCode, failure >>
       ELSE /\ stdout' = Cout(stdout, "Failed to initialize GLAD")
            /\ exitCode' = << ReturnValue("loadGL") >>
            /\ pc' = "exited"
            /\ failure' = "loader"
    /\ UNCHANGED << globals, host, devices, polled, pressCount, sampled,
                    loopEntered, runKey, runTime, runMoved, runFront >>

\* sizeof(vertices)
VerticesBytes == Len(vertices) * FloatBytes

\* The vertex array, the buffer and its data, the two shaders, the program.
Setup ==
    /\ pc = "setup"
    /\ acquired' =
           [r \in Resources |->
               IF r \in {"VAO", "VBO", "vertexShader", "fragmentShader",
                         "shaderProgram"}
               THEN acquired[r] + 1 ELSE acquired[r]]
    /\ bufferBytes' = VerticesBytes
    /\ pc' = "loopTest"
    /\ UNCHANGED << globals, exitCode, stdout, released, shouldClose,
                    cursorMode, drawn, devices, history >>

\* while (!glfwWindowShouldClose(window))
LoopTest ==
    /\ pc = "loopTest"
    /\ pc' = IF shouldClose THEN "cleanup" ELSE "frame"
    /\ loopEntered' = (loopEntered \/ ~shouldClose)
    /\ UNCHANGED << globals, exitCode, stdout, host, devices, polled,
                    pressCount, sampled, failure, runKey, runTime, runMoved,
                    runFront >>

\* The objects main deletes after the loop.
Deleted(rel) ==
    [r \in Resources |-> IF r \in {"VAO", "VBO"} THEN rel[r] + 1 ELSE rel[r]]

\* glDeleteVertexArrays, glDeleteBuffers, glfwTerminate, return 0.
Cleanup ==
    /\ pc = "cleanup"
    /\ released' = Terminated(acquired, Deleted(released))
    /\ exitCode' = << ReturnValue("cleanup") >>
    /\ pc' = "exited"
    /\ UNCHANGED << globals, stdout, acquired, shouldClose, cursorMode,
                    bufferBytes, drawn, devices, history >>

----------------------------------------------------------------------------
(* processInput.                                                           *)

\* A faulty speed: the same step every pass, whatever time has passed.
SpeedPerFrame(dt) == BaseSpeed

\* float cameraSpeed = 2.5f * deltaTime
CameraSpeed(dt) == BaseSpeed * dt

\* glm::normalize(glm::cross(cameraFront, cameraUp))
Right(front) == Normalize(Cross(front, cameraUp))

\* cameraPos after the four movement tests, W, S, A, D in that order.
MovedPos(pos, front, speed, down) ==
    LET w == IF "W" \in down THEN VAdd(pos, VScale(speed, front)) ELSE pos
        s == IF "S" \in down THEN VSub(w, VScale(speed, front)) ELSE w
        a == IF "A" \in down THEN VSub(s, VScale(speed, Right(front))) ELSE s
        d == IF "D" \in down THEN VAdd(a, VScale(speed, Right(front))) ELSE a
    IN  d

\* glfwGetKey(window, keys[i]) == GLFW_PRESS && !keyStates[i]
Fires(i, ks, down) == keys[i] \in down /\ ~ks[i]

\* toggleStates after the loop over the five keys.
ToggleStatesAfterLoop(ts, ks, down) ==
    [i \in 0 .. NumStates - 1 |->
        IF i < NumKeys /\ Fires(i, ks, down) THEN ~ts[i] ELSE ts[i]]

\* *flags[i] after the loop over the five keys.
FlagAfterLoop(i, flag, ts, ks, down) ==
    IF Fires(i, ks, down) THEN ToggleStatesAfterLoop(ts, ks, down)[i] ELSE flag

\* A faulty loop: a key that is down is never marked as down.
KeyStatesNeverDown(ks, down) ==
    [i \in 0 .. NumStates - 1 |-> IF i >= NumKeys THEN ks[i] ELSE FALSE]

\* keyStates after the loop over the five keys.
KeyStatesAfterLoop(ks, down) ==
    [i \in 0 .. NumStates - 1 |->
        IF i >= NumKeys THEN ks[i]
        ELSE IF keys[i] \in down THEN (IF ~ks[i] THEN TRUE ELSE ks[i])
        ELSE FALSE]

\* A faulty reset: its loop stops one toggle short.
ToggleStatesAfterShortReset(ts, down) ==
    IF ResetKey \in down
    THEN [i \in 0 .. NumStates - 1 |-> IF i < NumKeys - 1 THEN FALSE ELSE ts[i]]
    ELSE ts

\* toggleStates after the test of the reset key.
ToggleStatesAfterReset(ts, down) ==
    IF ResetKey \in down
    THEN [i \in 0 .. NumStates - 1 |-> IF i < NumKeys THEN FALSE ELSE ts[i]]
    ELSE ts

\* *flags[i] after the test of the reset key.
FlagAfterReset(flag, down) == IF ResetKey \in down THEN FALSE ELSE flag

\* A reset that also clears the five debounce flags.
KeyStatesCleared(ks, down) ==
    IF ResetKey \in down
    THEN [i \in 0 .. NumStates - 1 |-> IF i < NumKeys THEN FALSE ELSE ks[i]]
    ELSE ks

\* keyStates after the test of the reset key: the reset loop does not write it.
KeyStatesAfterReset(ks, down) == ks

\* *flags[i] after processInput.
FlagAfter(i, flag) ==
    FlagAfterReset(FlagAfterLoop(i, flag, toggleStates, keyStates, keysDown),
                   keysDown)

RECURSIVE SumTo(_, _)
\* f[0] + ... + f[n]
SumTo(f, n) == IF n < 0 THEN 0 ELSE f[n] + SumTo(f, n - 1)

\* The keys 1 to 5 and 0.
NumberKeys == ToggleKeys \cup {ResetKey}

\* History: key i is down at this call and was not at the call before.
NewPress(i) == keys[i] \in keysDown /\ keys[i] \notin polled

\* History: the discrete presses of each key since the last call that saw '0'.
CountedPresses ==
    IF ResetKey \in keysDown THEN [i \in 0 .. NumKeys - 1 |-> 0]
    ELSE [i \in 0 .. NumKeys - 1 |->
             IF NewPress(i) THEN pressCount[i] + 1 ELSE pressCount[i]]

\* History: the run of consecutive calls that saw one and the same movement
\* key, and no other, with one and the same cameraFront: its key, the sum of
\* its delta times, how far cameraPos has moved over it, its cameraFront.
TrackRun(dt) ==
    LET mk == keysDown \cap MoveKeys
    IN  IF Cardinality(mk) = 1
        THEN LET k == CHOOSE x \in mk : TRUE
             IN  IF runKey = k /\ runFront = cameraFront
                 THEN /\ runTime' = runTime + dt
                      /\ runMoved' = VAdd(runMoved, VSub(cameraPos', cameraPos))
                      /\ UNCHANGED << runKey, runFront >>
                 ELSE /\ runKey' = k
                      /\ runTime' = dt
                      /\ runMoved' = VSub(cameraPos', cameraPos)
                      /\ runFront' = cameraFront
        ELSE /\ runKey' = "none"
             /\ runTime' = 0
             /\ runMoved' = << 0, 0, 0 >>
             /\ runFront' = << 0, 0, 0 >>

\* One pass of the loop body up to glfwSwapBuffers: the clock is read as
\* currentFrame, processInput runs on the keys held, the cube is drawn.
Frame(currentFrame) ==
    /\ pc = "frame"
    /\ currentFrame >= lastFrame
    /\ deltaTime' = currentFrame - lastFrame
    /\ lastFrame' = currentFrame
    /\ cameraPos' =
           MovedPos(cameraPos, cameraFront, CameraSpeed(deltaTime'), keysDown)
    /\ toggleStates' =
           ToggleStatesAfterReset(
               ToggleStatesAfterLoop(toggleStates, keyStates, keysDown),
               keysDown)
    /\ keyStates' =
           KeyStatesAfterReset(KeyStatesAfterLoop(keyStates, keysDown),
                               keysDown)
    /\ applyTranslation' = FlagAfter(0, applyTranslation)
    /\ applyRotation' = FlagAfter(1, applyRotation)
    /\ applyScaling' = FlagAfter(2, applyScaling)
    /\ applyShearing' = FlagAfter(3, applyShearing)
    /\ applyReflection' = FlagAfter(4, applyReflection)
    /\ drawn' = DrawCount
    /\ pc' = "poll"
    /\ polled' = keysDown \cap NumberKeys
    /\ pressCount' = CountedPresses
    /\ TrackRun(deltaTime')
    /\ UNCHANGED << camera, leftMousePressed, exitCode, stdout, acquired,
                    released, shouldClose, cursorMode, bufferBytes, devices,
                    sampled, loopEntered, failure >>

----------------------------------------------------------------------------
(* glfwPollEvents: the events it delivers, and its return.                 *)

\* The windowing library records a key going down or up.
KeyEvent(k, action) ==
    /\ pc = "poll"
    /\ IF action = "PRESS"
       THEN /\ k \notin keysDown
            /\ Cardinality(keysDown) < MaxHeld
            /\ k \in ToggleKeys => SumTo(pressCount, NumKeys - 1) < MaxPresses
            /\ keysDown' = keysDown \cup {k}
       ELSE /\ k \in keysDown
            /\ keysDown' = keysDown \ {k}
    /\ UNCHANGED << globals, pc, exitCode, stdout, host, buttonsDown, cursor,
                    history >>

\* The user, or the window manager, asks for the window to be closed.
CloseRequest ==
    /\ pc = "poll"
    /\ ~shouldClose
    /\ shouldClose' = TRUE
    /\ UNCHANGED << globals, pc, exitCode, stdout, acquired, released,
                    cursorMode, bufferBytes, drawn, devices, history >>

\* leftMousePressed after mouse_button_callback.
PressedAfterButton(button, action, lmp) ==
    IF button = "LEFT" THEN action = "PRESS" ELSE lmp

\* A faulty callback: releasing the button does not reset firstMouse.
FirstMouseKept(button, action, fm) == fm

\* firstMouse after mouse_button_callback.
FirstMouseAfterButton(button, action, fm) ==
    IF button = "LEFT" /\ action = "RELEASE" THEN TRUE ELSE fm

\* The cursor mode after mouse_button_callback.
CursorModeAfterButton(button, action, mode) ==
    IF button # "LEFT" THEN mode
    ELSE IF action = "PRESS" THEN "DISABLED" ELSE "NORMAL"

\* A mouse button goes down or up: mouse_button_callback.
MouseButton(button, action) ==
    /\ pc = "poll"
    /\ IF action = "PRESS"
       THEN /\ button \notin buttonsDown
            /\ buttonsDown' = buttonsDown \cup {button}
       ELSE /\ button \in buttonsDown
            /\ buttonsDown' = buttonsDown \ {button}
    /\ leftMousePressed' = PressedAfterButton(button, action, leftMousePressed)
    /\ firstMouse' = FirstMouseAfterButton(button, action, firstMouse)
    /\ cursorMode' = CursorModeAfterButton(button, action, cursorMode)
    /\ sampled' = IF button = "LEFT" THEN 0 ELSE sampled
    /\ UNCHANGED << cameraPos, cameraFront, yaw, pitch, lastX, lastY,
                    deltaTime, lastFrame, toggles, pc, exitCode, stdout,
                    acquired, released, shouldClose, bufferBytes, drawn,
                    keysDown, cursor, polled, pressCount, loopEntered,
                    failure, runKey, runTime, runMoved, runFront >>

\* A faulty callback: the early return is missing.
NeverIgnored(lmp) == FALSE

\* if (!leftMousePressed) return;
Ignored(lmp) == ~lmp

\* An offset in pixels times the sensitivity 0.1f: d pixels are d tenths of
\* a degree.
Sensitive(d) == d

\* A faulty clamp: the test against -89 is missing.
ClampPitchAbove(p) == IF p > PitchLimit THEN PitchLimit ELSE p

\* The two clamping tests of pitch.
ClampPitch(p) ==
    LET hi == IF p > PitchLimit THEN PitchLimit ELSE p
    IN  IF hi < -PitchLimit THEN -PitchLimit ELSE hi

\* cameraFront as mouse_callback computes it from yaw and pitch.
Front(y, p) ==
    Normalize(<< RoundDiv(Cos(y) * Cos(p), One), Sin(p),
                 RoundDiv(Sin(y) * Cos(p), One) >>)

\* The cursor moves to (xpos, ypos): mouse_callback.
CursorPos(xpos, ypos) ==
    /\ pc = "poll"
    /\ << xpos, ypos >> # cursor
    /\ cursor' = << xpos, ypos >>
    /\ sampled' = IF "LEFT" \in buttonsDown /\ sampled < 2 THEN sampled + 1
                   ELSE sampled
    /\ IF Ignored(leftMousePressed)
       THEN UNCHANGED camera
       ELSE LET baseX == IF firstMouse THEN xpos ELSE lastX
                baseY == IF firstMouse THEN ypos ELSE lastY
                xoffset == Sensitive(xpos - baseX)
                yoffset == Sensitive(baseY - ypos)
            IN  /\ yaw' = yaw + xoffset
                /\ pitch' = ClampPitch(pitch + yoffset)
                /\ cameraFront' = Front(yaw', pitch')
                /\ lastX' = xpos
                /\ lastY' = ypos
                /\ firstMouse' = FALSE
    /\ UNCHANGED << cameraPos, leftMousePressed, deltaTime, lastFrame,
                    toggles, pc, exitCode, stdout, host, keysDown,
                    buttonsDown, polled, pressCount, loopEntered, failure,
                    runKey, runTime, runMoved, runFront >>

\* glfwPollEvents returns; the loop goes back to its test.
PollReturn ==
    /\ pc = "poll"
    /\ pc' = "loopTest"
    /\ UNCHANGED << globals, exitCode, stdout, host, devices, history >>

----------------------------------------------------------------------------
(* Specifications: main with the user's devices each claim is about.       *)

\* main from its first line to the loop, and the loop's own steps.
Running ==
    \/ \E ok \in BOOLEAN : GlfwInit(ok)
    \/ \E ok \in BOOLEAN : CreateWindow(ok)
    \/ \E ok \in BOOLEAN : LoadGL(ok)
    \/ Setup
    \/ LoopTest
    \/ PollReturn

\* The window is closed and main returns.
Closing ==
    \/ CloseRequest
    \/ Cleanup

\* The clock readings a pass may get, none later than max.
Readings(max) == {t \in lastFrame .. max : TRUE} \cup {lastFrame}

\* Where the cursor may be when the mouse is explored: the centre, a column
\* 10 pixels to its right, rows 450 and 900 pixels below it.
CursorXs == {400, 410}
CursorYs == {300, 750, 1200}
\* Where the cursor may be when movement is explored: the centre, and a
\* point 450 pixels below it.
MoveCursors == {<< 400, 300 >>, << 400, 750 >>}

\* The number keys, and the window's closing.
Next ==
    \/ Running
    \/ Closing
    \/ \E t \in Readings(MaxIdleTime) : Frame(t)
    \/ \E k \in NumberKeys, a \in Actions : KeyEvent(k, a)

Spec == Init /\ [][Next]_vars

\* The mouse, and the window's closing.
NextMouse ==
    \/ Running
    \/ Closing
    \/ \E t \in Readings(MaxIdleTime) : Frame(t)
    \/ \E b \in Buttons, a \in Actions : MouseButton(b, a)
    \/ \E x \in CursorXs, y \in CursorYs :
           CursorPos(x, y) /\ yaw' - YawInit \in -MaxTurn .. MaxTurn

SpecMouse == Init /\ [][NextMouse]_vars

\* The movement keys, the clock, and a mouse that tilts the camera, in a
\* window that stays open.
NextMove ==
    \/ Running
    \/ \E t \in Readings(MaxTime) : Frame(t)
    \/ \E k \in MoveKeys, a \in Actions :
           KeyEvent(k, a) /\ Cardinality(keysDown') <= MaxMoveHeld
    \/ \E a \in Actions : MouseButton("LEFT", a)
    \/ \E c \in MoveCursors :
           CursorPos(c[1], c[2]) /\ pitch' \in -MaxMoveTilt .. 0

SpecMove == Init /\ [][NextMove]_vars

----------------------------------------------------------------------------
(* Properties.                                                             *)

\* *flags[i]
Flag(i) ==
    << applyTranslation, applyRotation, applyScaling, applyShearing,
       applyReflection >>[i + 1]

KeyIndices == 0 .. NumKeys - 1

\* A step that is one call of processInput.
InputPass == pc = "frame" /\ pc' = "poll"

\* A step that delivers a cursor position while the left button is down.
CapturedSample == cursor' # cursor /\ "LEFT" \in buttonsDown

\* A step that delivers a cursor position while the left button is up.
FreeSample == cursor' # cursor /\ "LEFT" \notin buttonsDown

\* C1: a toggle is true exactly when its key has been pressed an odd number
\* of times (counted from the start, or from the last call that saw '0'),
\* and a call that does not see '0' flips toggle i exactly when it sees key
\* i down and the call before did not: once per press, never while held.
TogglePerPress ==
    /\ [](\A i \in KeyIndices :
             /\ toggleStates[i] = (pressCount[i] % 2 = 1)
             /\ Flag(i) = toggleStates[i])
    /\ [][(InputPass /\ ResetKey \notin keysDown) =>
             \A i \in KeyIndices :
                 (toggleStates'[i] # toggleStates[i]) = NewPress(i)]_vars

\* C1 witness: after the last reset key 1 was pressed twice and is off, key
\* 2 was pressed once, is on, and is still held.
TwoPressesThenOne ==
    /\ pressCount[0] = 2 /\ ~toggleStates[0]
    /\ pressCount[1] = 1 /\ toggleStates[1]
    /\ keys[1] \in polled /\ keyStates[1]

\* C2: after a call of processInput that saw '0' down, the five toggles and
\* the five flags are false, whichever other keys that call saw.
ResetClearsToggles ==
    ResetKey \in polled =>
        \A i \in KeyIndices : ~toggleStates[i] /\ ~Flag(i)

\* C2 witness: the last call saw '0' and key 2 down together.
ResetWithToggleKey ==
    /\ pc = "poll"
    /\ polled = {ResetKey, keys[1]}
    /\ ~applyRotation

\* C3, as claimed: after a call that saw '0' down, the five debounce flags
\* are false.
ResetClearsDebounce ==
    ResetKey \in polled => \A i \in KeyIndices : ~keyStates[i]

\* C3, amended: the reset leaves the debounce flags as the loop set them.
\* After a call that saw '0' down, keyStates[i] is true exactly for the
\* toggle keys that call saw down, and a key that was down then and is
\* still down at the next call is not a new press: its toggle stays false.
ResetKeepsDebounce ==
    /\ [](ResetKey \in polled =>
             \A i \in KeyIndices : keyStates[i] = (keys[i] \in polled))
    /\ [][(InputPass /\ ResetKey \in polled) =>
             \A i \in KeyIndices :
                 (keys[i] \in polled /\ keys[i] \in keysDown) =>
                     (~toggleStates'[i] /\ keyStates'[i])]_vars

\* C3 witness: key 1 went down in a call that saw '0' (its press was not
\* counted), and the last call saw key 1 alone, still down: no toggle.
HeldThroughReset ==
    /\ polled = {keys[0]}
    /\ pressCount[0] = 0
    /\ keyStates[0]
    /\ ~toggleStates[0]

\* C4: pitch is within -89 and 89 degrees.
PitchClamped == pitch >= -PitchLimit /\ pitch <= PitchLimit

\* C4 witness: the cursor was dragged 900 pixels down, and pitch stands at
\* the lower limit.
PitchAtLowerLimit ==
    /\ pitch = -PitchLimit
    /\ "LEFT" \in buttonsDown
    /\ lastY = 1200

\* C5, as claimed: the first sample of a capture sets the baseline and
\* leaves yaw and pitch alone; every later one adds (x - lastX) * 0.1 to yaw
\* and (lastY - y) * 0.1 to pitch.
FirstSampleThenOffsets ==
    [][CapturedSample =>
          IF sampled = 0
          THEN /\ yaw' = yaw /\ pitch' = pitch
               /\ lastX' = cursor'[1] /\ lastY' = cursor'[2]
          ELSE /\ yaw' = yaw + (cursor'[1] - lastX)
               /\ pitch' = pitch + (lastY - cursor'[2])]_vars

\* C5, amended: as claimed, but the later samples add (lastY - y) * 0.1 to
\* pitch and then clamp it to -89 .. 89 degrees.
FirstSampleThenClampedOffsets ==
    [][CapturedSample =>
          IF sampled = 0
          THEN /\ yaw' = yaw /\ pitch' = pitch
               /\ lastX' = cursor'[1] /\ lastY' = cursor'[2]
          ELSE LET raw == pitch + (lastY - cursor'[2])
               IN  /\ yaw' = yaw + (cursor'[1] - lastX)
                   /\ pitch' = IF raw > PitchLimit THEN PitchLimit
                               ELSE IF raw < -PitchLimit THEN -PitchLimit
                               ELSE raw
                   /\ lastX' = cursor'[1] /\ lastY' = cursor'[2]]_vars

\* C5 witness: an earlier capture turned and tilted the camera; the present
\* capture has had its first sample, and no other.
FirstSampleOfLaterCapture ==
    /\ "LEFT" \in buttonsDown
    /\ sampled = 1
    /\ yaw # YawInit
    /\ pitch # 0
    /\ cursor = << lastX, lastY >>

\* C6: capture is on exactly while the left button is down, and a cursor
\* position delivered while it is up changes none of yaw, pitch,
\* cameraFront, lastX, lastY, firstMouse.
CaptureGatesMouse ==
    /\ [](leftMousePressed = ("LEFT" \in buttonsDown))
    /\ [][FreeSample => UNCHANGED camera]_vars

\* C6 witness: after a capture that turned the camera, the button is up and
\* the cursor has moved away from the baseline, which stayed.
MovedWhileFree ==
    /\ "LEFT" \notin buttonsDown
    /\ ~leftMousePressed
    /\ yaw # YawInit
    /\ cursor # << lastX, lastY >>

\* C7: when main has returned after a failure to create the window or to
\* load the GL functions, it returned nonzero, printed one diagnostic and
\* never entered the loop; when it returned 0, nothing failed, the loop was
\* entered and the close request was seen.
ExitCodes ==
    pc = "exited" =>
        /\ failure # "none" =>
               /\ exitCode # << 0 >>
               /\ Len(stdout) = 1
               /\ ~loopEntered
               /\ drawn = 0
        /\ exitCode = << 0 >> =>
               /\ failure = "none"
               /\ loopEntered
               /\ shouldClose

\* C7 witness: main has returned -1 after the loader failed.
LoaderFailureExit ==
    /\ pc = "exited"
    /\ failure = "loader"
    /\ exitCode = << -1 >>
    /\ stdout = << "Failed to initialize GLAD" >>

\* The vertices the buffer holds: its bytes over the bytes of one vertex.
UploadedVertices == bufferBytes \div (StrideFloats * FloatBytes)

\* C8, as claimed: once the cube has been drawn, the uploaded mesh has 36
\* vertices and the draw read no vertex beyond the uploaded ones.
MeshCoversDraw ==
    drawn > 0 =>
        /\ UploadedVertices = DrawCount
        /\ drawn <= UploadedVertices

\* C9, as claimed: when main has returned, the vertex array, the vertex
\* buffer, the shader program and the windowing library have each been
\* acquired at most once and released as often as acquired.
ReleasedOnExit ==
    pc = "exited" =>
        \A r \in {"VAO", "VBO", "shaderProgram", "glfw"} :
            acquired[r] <= 1 /\ released[r] = acquired[r]

\* The axis of a movement key.
Axis(k, front) ==
    CASE k = "W" -> front
      [] k = "S" -> VScale(-1, front)
      [] k = "A" -> VScale(-1, Normalize(Cross(front, cameraUp)))
      [] k = "D" -> Normalize(Cross(front, cameraUp))

\* C10: over a run of consecutive passes that saw exactly one movement key
\* down, with cameraFront the same at each, the camera has moved by 2.5
\* times the sum of the passes' delta times along the key's axis: the sum
\* decides the displacement, however it is split into passes.
MoveDisplacement ==
    runKey # "none" =>
        runMoved = VScale(BaseSpeed * runTime, Axis(runKey, runFront))

\* C10 witness: key A held over at least two passes, 0.1 s each, with the
\* camera tilted 45 degrees down.
StrafeInTwoPasses ==
    /\ runKey = "A"
    /\ runTime = 2
    /\ deltaTime = 1
    /\ pitch = -MaxMoveTilt
    /\ runFront = cameraFront

====
